---- MODULE Spec2Model ----
(***************************************************************************)
(* A model of logger_v2: LoggerConfig (src/src/logger/config.py), a        *)
(* pydantic model with two field validators, and CustomLogger /            *)
(* ColoredFormatter (src/src/logger/custom_logger.py), a logging.Logger    *)
(* with a coloured console handler and a rotating file handler.            *)
(*                                                                         *)
(* Strings are sequences of one-character strings; a path is the sequence  *)
(* of its components.                                                      *)
(***************************************************************************)
EXTENDS Integers, Sequences, FiniteSets, TLC

VARIABLES
    fs,        \* the directory tree: [Paths -> {"none", "dir", "file"}]
    cfg,       \* the caller's LoggerConfig: <<>> or <<the model instance>>
    loggers,   \* the caller's CustomLogger handles: [Slots -> <<>> or <<logger>>]
    files,     \* the directory entries of the log files: file path -> inode
    inodes,    \* the contents of the log files: inode -> its lines
    console,   \* what the console handlers wrote to the standard error stream
    rootOut,   \* what reached the handlers of an ancestor (the root logger)
    clock,     \* the wall clock, in ticks (TicksPerSecond of them to a second)
    nlog,      \* the log calls made so far
    call       \* the most recent call: its input, the state before it, its outcome

vars == <<fs, cfg, loggers, files, inodes, console, rootOut, clock, nlog, call>>

----------------------------------------------------------------------------
(* Bounds of the model. *)

\* Spaces put before and after a log_level input.
MaxPad == 1
\* Log calls in one behaviour.
MaxCalls == 2
\* Ticks the wall clock may advance.
MaxClock == 2

----------------------------------------------------------------------------
(* Strings. *)

LowerAlpha ==
    <<"a","b","c","d","e","f","g","h","i","j","k","l","m",
      "n","o","p","q","r","s","t","u","v","w","x","y","z">>
UpperAlpha ==
    <<"A","B","C","D","E","F","G","H","I","J","K","L","M",
      "N","O","P","Q","R","S","T","U","V","W","X","Y","Z">>
Digits == <<"0","1","2","3","4","5","6","7","8","9">>

InSeq(c, s) == \E i \in 1..Len(s) : s[i] = c
IndexOf(c, s) == CHOOSE i \in 1..Len(s) : s[i] = c

\* str.upper() and str.lower(), one character.
UpperChar(c) == IF InSeq(c, LowerAlpha) THEN UpperAlpha[IndexOf(c, LowerAlpha)] ELSE c
LowerChar(c) == IF InSeq(c, UpperAlpha) THEN LowerAlpha[IndexOf(c, UpperAlpha)] ELSE c

StrUpper(s) == [i \in 1..Len(s) |-> UpperChar(s[i])]
StrLower(s) == [i \in 1..Len(s) |-> LowerChar(s[i])]

IsSpace(c) == c = " "

RECURSIVE LStrip(_)
LStrip(s) == IF s # <<>> /\ IsSpace(Head(s)) THEN LStrip(Tail(s)) ELSE s

RECURSIVE RStrip(_)
RStrip(s) ==
    IF s # <<>> /\ IsSpace(s[Len(s)]) THEN RStrip(SubSeq(s, 1, Len(s) - 1)) ELSE s

\* str_strip_whitespace: both ends are trimmed before the field's validator runs.
StripWhitespace(s) == RStrip(LStrip(s))

IsDigits(s) == s # <<>> /\ \A i \in 1..Len(s) : InSeq(s[i], Digits)

RECURSIVE StrToInt(_)
StrToInt(s) ==
    IF s = <<>> THEN 0
    ELSE 10 * StrToInt(SubSeq(s, 1, Len(s) - 1)) + (IndexOf(s[Len(s)], Digits) - 1)

----------------------------------------------------------------------------
(* The directory tree and Path.mkdir(parents=True, exist_ok=True). *)

DirLogs == <<"logs">>
DirApp  == <<"logs", "app">>
OldFile == <<"logs", "old.log">>
DataTxt == <<"data.txt">>
UnderFile == <<"data.txt", "x">>

Paths == {DirLogs, DirApp, OldFile, DataTxt, UnderFile}

Parent(p) == SubSeq(p, 1, Len(p) - 1)

\* The root always exists and is a directory.
Kind(f, p) == IF p = <<>> THEN "dir" ELSE f[p]

\* A tree the operating system can hold: a node's parent is a directory.
WellFormed(f) == \A p \in Paths : f[p] # "none" => Kind(f, Parent(p)) = "dir"

\* The trees a run starts from: data.txt is a regular file, old.log a file if there.
InitTrees ==
    {f \in [Paths -> {"none", "dir", "file"}] :
        /\ WellFormed(f)
        /\ f[DataTxt] = "file"
        /\ f[OldFile] # "dir"
        /\ f[DirLogs] # "file"
        /\ f[DirApp] # "file"}

MkResult(ok, f, errno) == [ok |-> ok, fs |-> f, errno |-> errno]

\* os.mkdir(p): the errno the kernel answers with, or the tree with p made.
OsMkdir(f, p) ==
    IF Kind(f, p) # "none" THEN
        MkResult(FALSE, f, "EEXIST")
    ELSE IF Kind(f, Parent(p)) = "none" THEN
        MkResult(FALSE, f, "ENOENT")
    ELSE IF Kind(f, Parent(p)) = "file" THEN
        MkResult(FALSE, f, "ENOTDIR")
    ELSE
        MkResult(TRUE, [f EXCEPT ![p] = "dir"], "")

\* The OSError branch of Path.mkdir: with exist_ok, an existing directory is fine.
MkdirExistOk(f, p, r) ==
    IF r.ok THEN r
    ELSE IF Kind(f, p) = "dir" THEN MkResult(TRUE, f, "")
    ELSE r

\* Path.mkdir(parents=True, exist_ok=True).
RECURSIVE Mkdir(_, _)
Mkdir(f, p) ==
    LET r == OsMkdir(f, p) IN
    IF r.ok THEN r
    ELSE IF r.errno = "ENOENT" THEN
        IF p = <<>> THEN r
        ELSE LET q == Mkdir(f, Parent(p)) IN
             IF ~q.ok THEN q
             ELSE MkdirExistOk(q.fs, p, OsMkdir(q.fs, p))
    ELSE MkdirExistOk(f, p, r)

----------------------------------------------------------------------------
(* Raw input values: what a caller may pass for a field, of any type. *)

RawOf(t, s, n, b, p) == [t |-> t, s |-> s, n |-> n, b |-> b, p |-> p]
Missing  == RawOf("missing", <<>>, 0, FALSE, <<>>)
RStr(s)  == RawOf("str", s, 0, FALSE, <<>>)
RInt(n)  == RawOf("int", <<>>, n, FALSE, <<>>)
RBool(b) == RawOf("bool", <<>>, 0, b, <<>>)
RPath(p) == RawOf("path", <<>>, 0, FALSE, p)

FieldNames == <<"log_dir", "log_level", "log_verbose", "max_bytes", "backup_count">>

----------------------------------------------------------------------------
(* Errors. *)

\* One line of a pydantic ValidationError: the field and the error type.
LineError(loc, type) == [loc |-> loc, type |-> type]

\* An exception: its class, the text its message starts with, the fields a
\* ValidationError lists (with the reason for each), the level names it names.
ErrorOf(class, message, lines, allowed) ==
    [class |-> class, message |-> message, lines |-> lines, allowed |-> allowed]
NoError == ErrorOf("", "", {}, {})

\* LoggerConfigError(message, error=...) and its __str__.
LoggerConfigError(message, lines, allowed) ==
    ErrorOf("LoggerConfigError", message, lines, allowed)

\* pydantic's ValidationError, as validate_assignment raises it.
ValidationError(lines) == ErrorOf("ValidationError", "validation error", lines, {})

----------------------------------------------------------------------------
(* pydantic's conversion of a raw value to a field's declared type, with the  *)
(* model's configuration: lax mode (strict is not set), str_strip_whitespace, *)
(* str_min_length = 1.                                                        *)

Conv(ok, type, s, n, b, p) ==
    [ok |-> ok, type |-> type, s |-> s, n |-> n, b |-> b, p |-> p]
ConvFail(type) == Conv(FALSE, type, <<>>, 0, FALSE, <<>>)

\* log_dir: Path. A path-like value is taken, anything else is a path_type error.
ToPath(raw) ==
    IF raw.t = "missing" THEN ConvFail("missing")
    ELSE IF raw.t = "path" THEN Conv(TRUE, "", <<>>, 0, FALSE, raw.p)
    ELSE ConvFail("path_type")

\* log_level: str. Stripped, then at least one character long.
ToStr(raw) ==
    IF raw.t = "missing" THEN ConvFail("missing")
    ELSE IF raw.t # "str" THEN ConvFail("string_type")
    ELSE LET s == StripWhitespace(raw.s) IN
         IF Len(s) < 1 THEN ConvFail("string_too_short")
         ELSE Conv(TRUE, "", s, 0, FALSE, <<>>)

BoolTrueStrings ==
    {<<"1">>, <<"o","n">>, <<"t">>, <<"t","r","u","e">>, <<"y">>, <<"y","e","s">>}
BoolFalseStrings ==
    {<<"0">>, <<"o","f","f">>, <<"f">>, <<"f","a","l","s","e">>, <<"n">>, <<"n","o">>}

\* log_verbose: bool. Lax mode takes 0 and 1 and the usual yes/no words.
ToBool(raw) ==
    IF raw.t = "missing" THEN ConvFail("missing")
    ELSE IF raw.t = "bool" THEN Conv(TRUE, "", <<>>, 0, raw.b, <<>>)
    ELSE IF raw.t = "int" THEN
        IF raw.n \in {0, 1} THEN Conv(TRUE, "", <<>>, 0, raw.n = 1, <<>>)
        ELSE ConvFail("bool_parsing")
    ELSE IF raw.t = "str" THEN
        IF StrLower(raw.s) \in BoolTrueStrings THEN Conv(TRUE, "", <<>>, 0, TRUE, <<>>)
        ELSE IF StrLower(raw.s) \in BoolFalseStrings
            THEN Conv(TRUE, "", <<>>, 0, FALSE, <<>>)
        ELSE ConvFail("bool_parsing")
    ELSE ConvFail("bool_type")

\* An int field that takes its default whatever integer is given.
ToIntDefaultOnly(raw, default) ==
    IF raw.t \in {"missing", "int"} THEN Conv(TRUE, "", <<>>, default, FALSE, <<>>)
    ELSE IF raw.t = "str" /\ IsDigits(StripWhitespace(raw.s))
        THEN Conv(TRUE, "", <<>>, StrToInt(StripWhitespace(raw.s)), FALSE, <<>>)
    ELSE ConvFail("int_parsing")

\* max_bytes, backup_count: int with a default. Lax mode parses a numeric string.
ToInt(raw, default) ==
    IF raw.t = "missing" THEN Conv(TRUE, "", <<>>, default, FALSE, <<>>)
    ELSE IF raw.t = "int" THEN Conv(TRUE, "", <<>>, raw.n, FALSE, <<>>)
    ELSE IF raw.t = "bool" THEN Conv(TRUE, "", <<>>, IF raw.b THEN 1 ELSE 0, FALSE, <<>>)
    ELSE IF raw.t = "str" THEN
        IF IsDigits(StripWhitespace(raw.s))
            THEN Conv(TRUE, "", <<>>, StrToInt(StripWhitespace(raw.s)), FALSE, <<>>)
        ELSE ConvFail("int_parsing")
    ELSE ConvFail("int_type")

DefaultMaxBytes == 1048576
DefaultBackupCount == 0

----------------------------------------------------------------------------
(* LoggerConfig: the two field validators. *)

LvDEBUG    == <<"D","E","B","U","G">>
LvINFO     == <<"I","N","F","O">>
LvWARNING  == <<"W","A","R","N","I","N","G">>
LvERROR    == <<"E","R","R","O","R">>
LvCRITICAL == <<"C","R","I","T","I","C","A","L">>

\* check_log_level's set `allowed`.
allowed == {LvDEBUG, LvINFO, LvWARNING, LvERROR, LvCRITICAL}

MsgInvalidConfiguration == "Invalid configuration: "
MsgLogLevel == "LoggerConfig validation failed for log_level"
MsgLogDir == "LoggerConfig validation failed for log_dir: "

\* What a field validator does: it returns a value, or raises.
Validated(raised, f, s, p, error) ==
    [raised |-> raised, fs |-> f, s |-> s, p |-> p, error |-> error]

\* ensure_log_dir_exists without the mkdir: the path is returned as it came.
ensure_log_dir_unmade(f, v) == Validated(FALSE, f, <<>>, v, NoError)

\* @field_validator("log_dir"): v.mkdir(parents=True, exist_ok=True); an
\* OSError is raised again as a LoggerConfigError.
ensure_log_dir_exists(f, v) ==
    LET r == Mkdir(f, v) IN
    IF r.ok THEN Validated(FALSE, r.fs, <<>>, v, NoError)
    ELSE Validated(TRUE, r.fs, <<>>, v,
                   LoggerConfigError(MsgLogDir, {LineError("log_dir", r.errno)}, {}))

\* check_log_level without v.upper(): membership is tested on the value as given.
check_log_level_as_given(f, v) ==
    IF v \notin allowed
        THEN Validated(TRUE, f, v, <<>>,
                       LoggerConfigError(MsgLogLevel,
                                         {LineError("log_level", "value")}, allowed))
    ELSE Validated(FALSE, f, v, <<>>, NoError)

\* @field_validator("log_level"): v.upper(), then membership in `allowed`.
check_log_level(f, v) ==
    LET u == StrUpper(v) IN
    IF u \notin allowed
        THEN Validated(TRUE, f, u, <<>>,
                       LoggerConfigError(MsgLogLevel,
                                         {LineError("log_level", "value")}, allowed))
    ELSE Validated(FALSE, f, u, <<>>, NoError)

----------------------------------------------------------------------------
(* LoggerConfig: validation of the whole input, and of one assignment. *)

ConfigOf(dir, level, verbose, maxBytes, backupCount) ==
    [log_dir |-> dir, log_level |-> level, log_verbose |-> verbose,
     max_bytes |-> maxBytes, backup_count |-> backupCount]

\* What a validation gives: a model instance or an exception, and the tree after.
Outcome(ok, f, c, error) == [ok |-> ok, fs |-> f, cfg |-> c, error |-> error]

ConvLine(loc, c) == IF c.ok THEN {} ELSE {LineError(loc, c.type)}

\* pydantic validates the fields in the order they are declared; a field's
\* validator runs right after that field's own conversion, before the next field
\* is looked at. An exception that is no ValueError or AssertionError leaves the
\* validation at once. Extra keys are looked at after the fields.
ValidateFields(f, data) ==
    LET d  == ToPath(data.log_dir)
        vd == IF d.ok THEN ensure_log_dir_exists(f, d.p)
              ELSE Validated(FALSE, f, <<>>, <<>>, NoError)
    IN
    IF vd.raised THEN Outcome(FALSE, vd.fs, <<>>, vd.error)
    ELSE
    LET l  == ToStr(data.log_level)
        vl == IF l.ok THEN check_log_level(vd.fs, l.s)
              ELSE Validated(FALSE, vd.fs, <<>>, <<>>, NoError)
    IN
    IF vl.raised THEN Outcome(FALSE, vl.fs, <<>>, vl.error)
    ELSE
    LET v  == ToBool(data.log_verbose)
        m  == ToInt(data.max_bytes, DefaultMaxBytes)
        b  == ToInt(data.backup_count, DefaultBackupCount)
        lines == ConvLine("log_dir", d) \cup ConvLine("log_level", l)
                 \cup ConvLine("log_verbose", v) \cup ConvLine("max_bytes", m)
                 \cup ConvLine("backup_count", b)
                 \cup (IF data.extra THEN {LineError("extra", "extra_forbidden")}
                       ELSE {})
    IN
    IF lines # {} THEN Outcome(FALSE, vl.fs, <<>>, ValidationError(lines))
    ELSE Outcome(TRUE, vl.fs, <<ConfigOf(vd.p, vl.s, v.b, m.n, b.n)>>, NoError)

\* LoggerConfig.__init__ without its except clause: the ValidationError escapes.
LoggerConfigInitUnwrapped(f, data) == ValidateFields(f, data)

\* LoggerConfig.__init__: a ValidationError is raised again as a
\* LoggerConfigError whose message starts with "Invalid configuration: ".
LoggerConfigInit(f, data) ==
    LET o == ValidateFields(f, data) IN
    IF ~o.ok /\ o.error.class = "ValidationError"
        THEN Outcome(FALSE, o.fs, <<>>,
                     LoggerConfigError(MsgInvalidConfiguration, o.error.lines, {}))
    ELSE o

\* Assignment without validate_assignment: the value is stored as given.
AssignUnvalidated(f, c, name, raw) ==
    IF name = "log_level" /\ raw.t = "str"
        THEN Outcome(TRUE, f, <<[c EXCEPT !.log_level = raw.s]>>, NoError)
    ELSE IF name = "log_dir" /\ raw.t = "path"
        THEN Outcome(TRUE, f, <<[c EXCEPT !.log_dir = raw.p]>>, NoError)
    ELSE Outcome(TRUE, f, <<c>>, NoError)

\* validate_assignment = True: the new value goes through the field's conversion
\* and validator; the instance is changed only when both pass.
ValidateAssignment(f, c, name, raw) ==
    IF name = "log_dir" THEN
        LET d == ToPath(raw) IN
        IF ~d.ok THEN Outcome(FALSE, f, <<c>>, ValidationError(ConvLine(name, d)))
        ELSE LET vd == ensure_log_dir_exists(f, d.p) IN
             IF vd.raised THEN Outcome(FALSE, vd.fs, <<c>>, vd.error)
             ELSE Outcome(TRUE, vd.fs, <<[c EXCEPT !.log_dir = vd.p]>>, NoError)
    ELSE IF name = "log_level" THEN
        LET l == ToStr(raw) IN
        IF ~l.ok THEN Outcome(FALSE, f, <<c>>, ValidationError(ConvLine(name, l)))
        ELSE LET vl == check_log_level(f, l.s) IN
             IF vl.raised THEN Outcome(FALSE, f, <<c>>, vl.error)
             ELSE Outcome(TRUE, f, <<[c EXCEPT !.log_level = vl.s]>>, NoError)
    ELSE IF name = "log_verbose" THEN
        LET v == ToBool(raw) IN
        IF ~v.ok THEN Outcome(FALSE, f, <<c>>, ValidationError(ConvLine(name, v)))
        ELSE Outcome(TRUE, f, <<[c EXCEPT !.log_verbose = v.b]>>, NoError)
    ELSE IF name = "max_bytes" THEN
        LET m == ToInt(raw, DefaultMaxBytes) IN
        IF ~m.ok THEN Outcome(FALSE, f, <<c>>, ValidationError(ConvLine(name, m)))
        ELSE Outcome(TRUE, f, <<[c EXCEPT !.max_bytes = m.n]>>, NoError)
    ELSE
        LET b == ToInt(raw, DefaultBackupCount) IN
        IF ~b.ok THEN Outcome(FALSE, f, <<c>>, ValidationError(ConvLine(name, b)))
        ELSE Outcome(TRUE, f, <<[c EXCEPT !.backup_count = b.n]>>, NoError)

----------------------------------------------------------------------------
(* ColoredFormatter and the two line formats. *)

ESC == "ESC"

\* ColoredFormatter.COLORS and ColoredFormatter.RESET.
RESET == <<ESC, "[", "0", "m">>
COLORS ==
    [n \in allowed |->
        CASE n = LvDEBUG    -> <<ESC, "[", "9", "2", "m">>
          [] n = LvINFO     -> <<ESC, "[", "9", "4", "m">>
          [] n = LvWARNING  -> <<ESC, "[", "9", "3", "m">>
          [] n = LvERROR    -> <<ESC, "[", "9", "1", "m">>
          [] n = LvCRITICAL -> <<ESC, "[", "9", "5", "m">>]

\* logging's level numbers: _nameToLevel and _levelToName for the five levels.
LevelNos == {10, 20, 30, 40, 50}
levelToName(no) ==
    CASE no = 10 -> LvDEBUG [] no = 20 -> LvINFO [] no = 30 -> LvWARNING
      [] no = 40 -> LvERROR [] no = 50 -> LvCRITICAL
LoggingINFO == 20
\* logging._nameToLevel.get(name, logging.INFO)
nameToLevel(name) ==
    IF name \in allowed THEN CHOOSE no \in LevelNos : levelToName(no) = name
    ELSE LoggingINFO

\* str.lstrip(chars): the characters of `chars` are removed from the front only.
RECURSIVE PyLStrip(_, _)
PyLStrip(s, chars) ==
    IF s # <<>> /\ InSeq(Head(s), chars) THEN PyLStrip(Tail(s), chars) ELSE s

\* str.strip(chars): the characters of `chars` are removed from both ends.
RECURSIVE PyStrip(_, _)
PyStrip(s, chars) ==
    IF s # <<>> /\ InSeq(Head(s), chars) THEN PyStrip(Tail(s), chars)
    ELSE IF s # <<>> /\ InSeq(s[Len(s)], chars)
        THEN PyStrip(SubSeq(s, 1, Len(s) - 1), chars)
    ELSE s

\* A LogRecord: the fields the two formats read.
RecordOf(name, levelno, msg) ==
    [name |-> name, levelno |-> levelno, levelname |-> levelToName(levelno),
     msg |-> msg]

AscTime == <<"T">>
LineNo == <<"7">>

\* levelname_colored without the closing RESET.
levelname_colored_unclosed(levelname) ==
    LET levelname_stripped == PyStrip(levelname, RESET) IN
    (IF levelname_stripped \in DOMAIN COLORS THEN COLORS[levelname_stripped]
     ELSE RESET) \o levelname_stripped

\* ColoredFormatter.format: record.levelname_colored.
levelname_colored(levelname) ==
    LET levelname_stripped == PyStrip(levelname, RESET)
        log_color == IF levelname_stripped \in DOMAIN COLORS
                        THEN COLORS[levelname_stripped] ELSE RESET
    IN log_color \o levelname_stripped \o RESET

\* "%(asctime)s [%(levelname_colored)s] %(name)s:%(lineno)d: %(message)s"
ConsoleFormat(r) ==
    AscTime \o <<" ", "[">> \o levelname_colored(r.levelname) \o <<"]", " ">>
        \o r.name \o <<":">> \o LineNo \o <<":", " ">> \o r.msg

\* ColoredFormatter.format(record): the record with levelname_colored set on
\* it (levelname is read, not written), and the line returned.
ColoredFormatterFormat(r) ==
    [record |-> [name |-> r.name, levelno |-> r.levelno, levelname |-> r.levelname,
                 msg |-> r.msg,
                 levelname_colored |-> levelname_colored(r.levelname)],
     line |-> ConsoleFormat(r)]

\* "%(asctime)s [%(levelname)s] %(name)s:%(lineno)d: %(message)s"
FileFormat(r) ==
    AscTime \o <<" ", "[">> \o r.levelname \o <<"]", " ">>
        \o r.name \o <<":">> \o LineNo \o <<":", " ">> \o r.msg

----------------------------------------------------------------------------
(* The log files: directory entries, inodes and the rotating handler. *)

TicksPerSecond == 2

\* A file name that tells the ticks of a second apart.
StampNameOfTick(t) ==
    <<"2026-01-01_0000", Digits[((t \div 10) % 10) + 1], Digits[(t % 10) + 1], ".log">>

\* f"{datetime.now():%Y-%m-%d_%H%M%S}.log": the time to the second.
StampName(t) ==
    LET sec == t \div TicksPerSecond IN
    <<"2026-01-01_0000", Digits[((sec \div 10) % 10) + 1], Digits[(sec % 10) + 1], ".log">>

\* A file of a log directory: the base file (n = 0) or its n-th backup, "<base>.n".
FileOf(dir, name, n) == [dir |-> dir, name |-> name, n |-> n]
NoFile == FileOf(<<>>, <<>>, 0)

FileExists(fls, p) == p \in DOMAIN fls
Remove(fls, p) == [q \in DOMAIN fls \ {p} |-> fls[q]]
Rename(fls, src, dst) ==
    [q \in (DOMAIN fls \ {src}) \cup {dst} |-> IF q = dst THEN fls[src] ELSE fls[q]]

\* The bytes of a file: every line and its newline.
RECURSIVE Size(_)
Size(lines) == IF lines = <<>> THEN 0 ELSE Len(Head(lines)) + 1 + Size(Tail(lines))

Opened(ok, fls, ind, stream, errno) ==
    [ok |-> ok, files |-> fls, inodes |-> ind, stream |-> stream, errno |-> errno]

\* open(path, "a"): the file's inode, a new empty one if the file is not there;
\* it fails when the directory is not there.
OpenAppend(f, fls, ind, p) ==
    IF Kind(f, p.dir) = "none" THEN Opened(FALSE, fls, ind, 0, "ENOENT")
    ELSE IF Kind(f, p.dir) = "file" THEN Opened(FALSE, fls, ind, 0, "ENOTDIR")
    ELSE IF FileExists(fls, p) THEN Opened(TRUE, fls, ind, fls[p], "")
    ELSE Opened(TRUE, (p :> (Len(ind) + 1)) @@ fls, Append(ind, <<>>), Len(ind) + 1, "")

HandlerOf(class, level, formatter, base, maxBytes, backupCount, stream) ==
    [class |-> class, level |-> level, formatter |-> formatter,
     baseFilename |-> base, maxBytes |-> maxBytes, backupCount |-> backupCount,
     stream |-> stream]

Backup(base, i) == FileOf(base.dir, base.name, i)

\* doRollover's loop: for i in range(backupCount - 1, 0, -1), "<base>.i" is
\* renamed to "<base>.(i+1)".
RECURSIVE ShiftBackups(_, _, _)
ShiftBackups(fls, base, i) ==
    IF i < 1 THEN fls
    ELSE LET sfn == Backup(base, i)
             dfn == Backup(base, i + 1)
         IN IF FileExists(fls, sfn)
                THEN ShiftBackups(Rename(Remove(fls, dfn), sfn, dfn), base, i - 1)
            ELSE ShiftBackups(fls, base, i - 1)

\* RotatingFileHandler.shouldRollover
shouldRollover(h, ind, line) ==
    /\ h.maxBytes > 0
    /\ Size(ind[h.stream]) + Len(line) + 1 >= h.maxBytes

\* RotatingFileHandler.doRollover: the directory entries after it.
doRollover(h, fls) ==
    IF h.backupCount > 0 THEN
        LET shifted == ShiftBackups(fls, h.baseFilename, h.backupCount - 1)
            dfn == Backup(h.baseFilename, 1)
            cleared == Remove(shifted, dfn)
        IN IF FileExists(cleared, h.baseFilename)
               THEN Rename(cleared, h.baseFilename, dfn)
           ELSE cleared
    ELSE fls

\* The sinks and one handler of the logger: what Handler.handle changes.
Sinks(fls, ind, con, h) == [files |-> fls, inodes |-> ind, console |-> con, h |-> h]

\* StreamHandler.emit on the console handler.
ConsoleEmit(f, st, r) ==
    Sinks(st.files, st.inodes, Append(st.console, ConsoleFormat(r)), st.h)

\* RotatingFileHandler.emit: a rollover if the line would reach maxBytes, then
\* the line is written to the stream.
FileEmit(f, st, r) ==
    LET line == FileFormat(r)
        roll == shouldRollover(st.h, st.inodes, line)
        o    == IF roll
                    THEN OpenAppend(f, doRollover(st.h, st.files), st.inodes,
                                    st.h.baseFilename)
                ELSE Opened(TRUE, st.files, st.inodes, st.h.stream, "")
    IN Sinks(o.files,
             [o.inodes EXCEPT ![o.stream] = Append(@, line)],
             st.console,
             [st.h EXCEPT !.stream = o.stream])

\* Handler.handle, by the handler's class.
Emit(f, st, r) ==
    IF st.h.class = "StreamHandler" THEN ConsoleEmit(f, st, r) ELSE FileEmit(f, st, r)

----------------------------------------------------------------------------
(* CustomLogger. *)

LoggerOf(name, level, log_level, log_file, verbose, max_bytes, backup_count) ==
    [name |-> name, level |-> level, log_level |-> log_level,
     log_file |-> log_file, verbose |-> verbose, max_bytes |-> max_bytes,
     backup_count |-> backup_count,
     \* logging.Logger.__init__: no handlers, no parent, propagate = True.
     handlers |-> <<>>, propagate |-> TRUE, parent |-> "none"]

Built(ok, lg, fls, ind, errno) ==
    [ok |-> ok, logger |-> lg, files |-> fls, inodes |-> ind, errno |-> errno]

\* _setup_logging that forgets self.addHandler(console_handler).
setup_logging_file_only(f, fls, ind, lg) ==
    LET o == OpenAppend(f, fls, ind, lg.log_file)
        file_handler ==
            HandlerOf("RotatingFileHandler", lg.log_level, "Formatter",
                      lg.log_file, lg.max_bytes, lg.backup_count, o.stream)
    IN IF o.ok
           THEN Built(TRUE, [lg EXCEPT !.handlers = <<file_handler>>],
                      o.files, o.inodes, "")
       ELSE Built(FALSE, lg, fls, ind, o.errno)

\* _setup_logging that falls back to the console when the file cannot be opened.
setup_logging_console_fallback(f, fls, ind, lg) ==
    LET console_handler ==
            HandlerOf("StreamHandler", lg.log_level, "ColoredFormatter", NoFile, 0, 0, 0)
        o == OpenAppend(f, fls, ind, lg.log_file)
        file_handler ==
            HandlerOf("RotatingFileHandler", lg.log_level, "Formatter",
                      lg.log_file, lg.max_bytes, lg.backup_count, o.stream)
    IN IF o.ok
           THEN Built(TRUE, [lg EXCEPT !.handlers = <<console_handler, file_handler>>],
                      o.files, o.inodes, "")
       ELSE Built(TRUE, [lg EXCEPT !.handlers = <<console_handler>>], fls, ind, "")

\* CustomLogger._setup_logging: the console handler, then the rotating file
\* handler (which opens the log file), then both are added to the logger.
setup_logging(f, fls, ind, lg) ==
    LET console_handler ==
            HandlerOf("StreamHandler", lg.log_level, "ColoredFormatter", NoFile, 0, 0, 0)
        o == OpenAppend(f, fls, ind, lg.log_file)
        file_handler ==
            HandlerOf("RotatingFileHandler", lg.log_level, "Formatter",
                      lg.log_file, lg.max_bytes, lg.backup_count, o.stream)
    IN IF o.ok
           THEN Built(TRUE, [lg EXCEPT !.handlers = <<console_handler, file_handler>>],
                      o.files, o.inodes, "")
       ELSE Built(FALSE, lg, fls, ind, o.errno)

\* CustomLogger.__init__ without the final self.propagate = False.
CustomLoggerInitPropagating(f, fls, ind, c, name, t) ==
    LET log_level == nameToLevel(c.log_level)
        log_file  == FileOf(c.log_dir, StampName(t), 0)
        self == LoggerOf(name, log_level, log_level, log_file, c.log_verbose,
                         c.max_bytes, c.backup_count)
    IN setup_logging(f, fls, ind, self)

\* CustomLogger.__init__(name, cfg) at wall-clock time t.
CustomLoggerInit(f, fls, ind, c, name, t) ==
    LET log_level == nameToLevel(c.log_level)
        log_file  == FileOf(c.log_dir, StampName(t), 0)
        self == LoggerOf(name, log_level, log_level, log_file, c.log_verbose,
                         c.max_bytes, c.backup_count)
        s == setup_logging(f, fls, ind, self)
    IN IF s.ok THEN [s EXCEPT !.logger.propagate = FALSE] ELSE s

\* isEnabledFor with a strict comparison.
isEnabledForAbove(lg, levelno) == levelno > lg.level

\* Logger.isEnabledFor: the logger's own level is its effective level.
isEnabledFor(lg, levelno) == levelno >= lg.level

Handled(hs, fls, ind, con) ==
    [handlers |-> hs, files |-> fls, inodes |-> ind, console |-> con]

\* Logger.callHandlers, the logger's own handlers: each one whose level the
\* record reaches handles it.
RECURSIVE HandleAll(_, _, _, _, _)
HandleAll(f, hs, i, st, r) ==
    IF i > Len(hs) THEN st
    ELSE IF r.levelno >= hs[i].level THEN
        LET e == Emit(f, Sinks(st.files, st.inodes, st.console, hs[i]), r) IN
        HandleAll(f, hs, i + 1,
                  Handled(Append(st.handlers, e.h), e.files, e.inodes, e.console), r)
    ELSE HandleAll(f, hs, i + 1, [st EXCEPT !.handlers = Append(@, hs[i])], r)

Logged(lg, fls, ind, con, root) ==
    [logger |-> lg, files |-> fls, inodes |-> ind, console |-> con, rootOut |-> root]

\* Logger.log(levelno, msg): dropped below the logger's level; else handled by
\* the logger's handlers and, if it propagates and has a parent, by the parent's.
LoggerLog(f, lg, fls, ind, con, root, levelno, msg) ==
    IF ~isEnabledFor(lg, levelno) THEN Logged(lg, fls, ind, con, root)
    ELSE LET r  == RecordOf(lg.name, levelno, msg)
             st == HandleAll(f, lg.handlers, 1, Handled(<<>>, fls, ind, con), r)
         IN Logged([lg EXCEPT !.handlers = st.handlers], st.files, st.inodes,
                   st.console,
                   IF lg.propagate /\ lg.parent # "none" THEN Append(root, r)
                   ELSE root)

----------------------------------------------------------------------------
(* The inputs the model draws. *)

Spaces(n) == [i \in 1..n |-> " "]

\* Title case: the first letter upper, the rest lower.
StrTitle(s) == [i \in 1..Len(s) |-> IF i = 1 THEN UpperChar(s[i]) ELSE LowerChar(s[i])]

LevelWords ==
    allowed \cup {<<>>, <<"T","R","A","C","E">>, <<"I","N","F","O","S">>}

\* log_level inputs: every word in three casings, with spaces around it.
LevelStrings ==
    {Spaces(l) \o w \o Spaces(r) :
        w \in UNION {{x, StrLower(x), StrTitle(x)} : x \in LevelWords},
        l \in 0..MaxPad, r \in 0..MaxPad}

DataOf(dir, level, verbose, maxBytes, backupCount, extra) ==
    [log_dir |-> dir, log_level |-> level, log_verbose |-> verbose,
     max_bytes |-> maxBytes, backup_count |-> backupCount, extra |-> extra]

StrDebug == <<"d","e","b","u","g">>
StrTrace == <<"t","r","a","c","e">>
StrTrue  == <<"t","r","u","e">>
StrMaybe == <<"m","a","y","b","e">>
StrAbc   == <<"a","b","c">>
Str64    == <<"6","4">>

\* Inputs that vary log_level, the other fields being fine (or log_dir a file).
LevelData ==
    {DataOf(RPath(d), RStr(s), RBool(TRUE), Missing, Missing, FALSE) :
        d \in {DirApp, DataTxt}, s \in LevelStrings}

\* Inputs that vary every field's type and presence.
SchemaData ==
    {DataOf(d, l, v, m, b, x) :
        d \in {Missing, RInt(15), RPath(DirLogs), RPath(DirApp), RPath(UnderFile)},
        l \in {RStr(StrDebug), RStr(StrTrace), RStr(<<" ">>), RInt(10)},
        v \in {RBool(FALSE), RStr(StrTrue), RStr(StrMaybe), RInt(2)},
        m \in {Missing, RInt(32), RStr(Str64), RStr(StrAbc)},
        b \in {Missing, RInt(1), RStr(StrAbc)},
        x \in BOOLEAN}

ConfigData == LevelData \cup SchemaData

\* Assignments to a field of a constructed config.
AssignData ==
    ({"log_dir"} \X {RPath(DirApp), RPath(DataTxt), RInt(15)})
    \cup ({"log_level"} \X {RStr(<<" ">> \o StrDebug), RStr(StrTrace), RStr(<<" ">>),
                            RInt(10)})
    \cup ({"log_verbose"} \X {RBool(FALSE), RStr(StrMaybe)})
    \cup ({"max_bytes"} \X {RInt(32), RStr(StrAbc)})
    \cup ({"backup_count"} \X {RInt(1), RStr(StrAbc)})

----------------------------------------------------------------------------
(* The state, and the record of the most recent call. *)

Slots == {"h1", "h2"}

Snapshot ==
    [fs |-> fs, cfg |-> cfg, loggers |-> loggers, files |-> files,
     inodes |-> inodes, console |-> console, rootOut |-> rootOut]

NoData == DataOf(Missing, Missing, Missing, Missing, Missing, FALSE)

\* op: the call; data, field, raw, slot, name, levelno, msg: its arguments (those
\* it has); before: the state it was made in; ok, error, ret: whether it
\* returned, the exception it raised, the config it returned.
CallOf(op, data, field, raw, slot, name, levelno, msg, before, ok, error, ret) ==
    [op |-> op, data |-> data, field |-> field, raw |-> raw, slot |-> slot,
     name |-> name, levelno |-> levelno, msg |-> msg, before |-> before,
     ok |-> ok, error |-> error, ret |-> ret]

Init ==
    /\ fs \in InitTrees
    /\ cfg = <<>>
    /\ loggers = [s \in Slots |-> <<>>]
    /\ files = <<>>
    /\ inodes = <<>>
    /\ console = <<>>
    /\ rootOut = <<>>
    /\ clock = 0
    /\ nlog = 0
    /\ call = CallOf("none", NoData, "", Missing, "", <<>>, 0, <<>>,
                     Snapshot, TRUE, NoError, <<>>)

\* cfg = LoggerConfig(**data), the program's first call. The caller keeps the one
\* config it constructs; a construction that raises leaves the caller without
\* one, and is not tried again.
Validate(data) ==
    /\ cfg = <<>>
    /\ call.op = "none"
    /\ LET o == LoggerConfigInit(fs, data) IN
       /\ fs' = o.fs
       /\ cfg' = o.cfg
       /\ call' = CallOf("validate", data, "", Missing, "", <<>>, 0, <<>>,
                         Snapshot, o.ok, o.error, o.cfg)
    /\ UNCHANGED <<loggers, files, inodes, console, rootOut, clock, nlog>>

\* cfg.<field> = raw, under validate_assignment.
Assign(field, raw) ==
    /\ cfg # <<>>
    /\ LET o == ValidateAssignment(fs, cfg[1], field, raw) IN
       /\ fs' = o.fs
       /\ cfg' = o.cfg
       /\ call' = CallOf("assign", NoData, field, raw, "", <<>>, 0, <<>>,
                         Snapshot, o.ok, o.error, <<>>)
    /\ UNCHANGED <<loggers, files, inodes, console, rootOut, clock, nlog>>

NextConfig ==
    \/ \E data \in ConfigData : Validate(data)
    \/ \E a \in AssignData : Assign(a[1], a[2])

\* Validation and assignment alone, over a wide range of raw inputs.
SpecConfig == Init /\ [][NextConfig]_vars

----------------------------------------------------------------------------
(* The logger's actions. *)

NamePlain == <<"a","p","p">>
NameEsc   == <<ESC, "[", "1", "m", "x">>
MsgPlain  == <<"h","i">>
MsgEsc    == <<ESC, "[", "1", "m", "!">>

Names == {NamePlain, NameEsc}
Messages == {MsgPlain, MsgEsc}

\* Valid inputs: every level, with and without a small max_bytes and a backup.
LoggerData ==
    {DataOf(RPath(DirLogs), RStr(l), RBool(TRUE), m, b, FALSE) :
        l \in allowed, m \in {Missing, RInt(32)}, b \in {Missing, RInt(1)}}

\* loggers[slot] = CustomLogger(name, cfg). A construction that raises leaves
\* the caller without a logger.
Build(slot, name) ==
    /\ cfg # <<>>
    /\ loggers[slot] = <<>>
    /\ LET o == CustomLoggerInit(fs, files, inodes, cfg[1], name, clock) IN
       /\ loggers' = [loggers EXCEPT ![slot] = IF o.ok THEN <<o.logger>> ELSE <<>>]
       /\ files' = o.files
       /\ inodes' = o.inodes
       /\ call' = CallOf("build", NoData, "", Missing, slot, name, 0, <<>>, Snapshot,
                         o.ok,
                         IF o.ok THEN NoError
                         ELSE ErrorOf("OSError", o.errno, {}, {}),
                         <<>>)
    /\ UNCHANGED <<fs, cfg, console, rootOut, clock, nlog>>

\* The caller (or logging's manager) hangs the logger under the root logger.
SetParent(slot) ==
    /\ loggers[slot] # <<>>
    /\ loggers[slot][1].parent = "none"
    /\ loggers' = [loggers EXCEPT ![slot][1].parent = "root"]
    /\ call' = CallOf("set_parent", NoData, "", Missing, slot, <<>>, 0, <<>>,
                      Snapshot, TRUE, NoError, <<>>)
    /\ UNCHANGED <<fs, cfg, files, inodes, console, rootOut, clock, nlog>>

\* loggers[slot].log(levelno, msg)
Log(slot, levelno, msg) ==
    /\ loggers[slot] # <<>>
    /\ nlog < MaxCalls
    /\ LET lg == loggers[slot][1]
           o  == LoggerLog(fs, lg, files, inodes, console, rootOut, levelno, msg)
       IN /\ loggers' = [loggers EXCEPT ![slot] = <<o.logger>>]
          /\ files' = o.files
          /\ inodes' = o.inodes
          /\ console' = o.console
          /\ rootOut' = o.rootOut
          /\ call' = CallOf("log", NoData, "", Missing, slot, lg.name, levelno, msg,
                            Snapshot, TRUE, NoError, <<>>)
    /\ nlog' = nlog + 1
    /\ UNCHANGED <<fs, cfg, clock>>

\* The wall clock advances.
Tick ==
    /\ clock < MaxClock
    /\ clock' = clock + 1
    /\ UNCHANGED <<fs, cfg, loggers, files, inodes, console, rootOut, nlog, call>>

Next ==
    \/ \E data \in LoggerData : Validate(data)
    \/ \E name \in Names : Build("h1", name)
    \/ SetParent("h1")
    \/ \E levelno \in LevelNos, msg \in Messages : Log("h1", levelno, msg)

\* One logger, built from a valid config and logged through.
Spec == Init /\ [][Next]_vars

----------------------------------------------------------------------------
(* Claims about LoggerConfig, checked under SpecConfig. *)

IsValidate == call.op = "validate"
IsAssign == call.op = "assign"

\* The input's log_dir is path-like but cannot be made a directory.
LogDirFails ==
    /\ ToPath(call.data.log_dir).ok
    /\ ~Mkdir(call.before.fs, call.data.log_dir.p).ok

\* The input's log_level, trimmed, and trimmed and uppercased.
LevelTrimmed == StripWhitespace(call.data.log_level.s)
LevelUpper == StrUpper(LevelTrimmed)

InvalidLevelError ==
    /\ ~call.ok
    /\ call.ret = <<>>
    /\ call.error.class = "LoggerConfigError"
    /\ call.error.message = MsgLogLevel
    /\ call.error.allowed = {LvDEBUG, LvINFO, LvWARNING, LvERROR, LvCRITICAL}

SchemaError ==
    /\ ~call.ok
    /\ call.ret = <<>>
    /\ call.error.class = "LoggerConfigError"
    /\ call.error.message = MsgInvalidConfiguration

\* C1 as stated: every log_level string is trimmed and uppercased; one of the
\* five names is stored as that name, and every other string fails with the
\* invalid-level error and produces no config.
C1_EveryOtherStringInvalidLevel ==
    (IsValidate /\ call.data.log_level.t = "str" /\ ~LogDirFails) =>
        IF LevelUpper \in allowed
            THEN call.ok => call.ret[1].log_level = LevelUpper
        ELSE InvalidLevelError

\* C1, amended: a log_level string (of an input whose log_dir can be made) is
\* trimmed and uppercased; one of the five names never fails as an invalid
\* level and is stored as that uppercase name; an empty or whitespace-only
\* string fails as a schema violation ("Invalid configuration: ", listing
\* log_level as too short); every other string fails with the invalid-level
\* error naming the allowed set. A failure produces no config.
C1_LevelNormalised ==
    (IsValidate /\ call.data.log_level.t = "str" /\ ~LogDirFails) =>
        /\ call.ok => /\ LevelUpper \in allowed
                      /\ call.ret[1].log_level = LevelUpper
                      /\ cfg = call.ret
        /\ LevelUpper \in allowed => call.error.message # MsgLogLevel
        /\ LevelTrimmed = <<>> =>
              /\ SchemaError
              /\ LineError("log_level", "string_too_short") \in call.error.lines
        /\ (LevelTrimmed # <<>> /\ LevelUpper \notin allowed) => InvalidLevelError
        /\ ~call.ok => cfg = <<>>

\* C1's case: a padded, lower-case level was given and is stored uppercased.
C1_Witness ==
    /\ IsValidate /\ call.ok
    /\ call.data.log_level.s = <<" ">> \o StrDebug \o <<" ">>
    /\ cfg[1].log_level = LvDEBUG

IsPrefix(a, b) == Len(a) <= Len(b) /\ SubSeq(b, 1, Len(a)) = a

\* C6: after a successful validation log_dir and all its parents are
\* directories, whatever was there before is as it was (only log_dir and its
\* missing parents are new), and no log file is touched; when log_dir already
\* was a directory the tree is unchanged and directory creation does not fail.
C6_LogDirCreated ==
    /\ (IsValidate /\ call.ok) =>
          LET p == call.ret[1].log_dir IN
          /\ p = call.data.log_dir.p
          /\ \A k \in 1..Len(p) : Kind(fs, SubSeq(p, 1, k)) = "dir"
          /\ \A q \in Paths : call.before.fs[q] # "none" => fs[q] = call.before.fs[q]
          /\ \A q \in Paths : fs[q] # call.before.fs[q] => IsPrefix(q, p)
          /\ files = call.before.files /\ inodes = call.before.inodes
    /\ (IsValidate /\ call.data.log_dir.t = "path"
            /\ Kind(call.before.fs, call.data.log_dir.p) = "dir") =>
          /\ fs = call.before.fs
          /\ call.error.message # MsgLogDir

\* C6's case: log_dir and its parent were both missing and have been made.
C6_Witness ==
    /\ IsValidate /\ call.ok
    /\ cfg[1].log_dir = DirApp
    /\ call.before.fs[DirLogs] = "none"
    /\ fs[DirLogs] = "dir" /\ fs[DirApp] = "dir"

\* C7: a constructed config always holds one of the five level names; after a
\* construction or an assignment that succeeded its log_dir is a directory; an
\* assignment that fails raises and leaves every field as it was, and a
\* construction that fails leaves no config.
C7_ConfigAlwaysValid ==
    /\ cfg # <<>> =>
          /\ cfg[1].log_level \in {LvDEBUG, LvINFO, LvWARNING, LvERROR, LvCRITICAL}
          /\ cfg[1].log_dir \in Paths
    /\ ((IsValidate \/ IsAssign) /\ call.ok) => Kind(fs, cfg[1].log_dir) = "dir"
    /\ (IsAssign /\ ~call.ok) => (cfg = call.before.cfg /\ call.error # NoError)
    /\ (IsValidate /\ ~call.ok) => (cfg = <<>> /\ call.error # NoError)

\* C7's case: an assignment of an invalid level has failed, after one that
\* changed the directory.
C7_Witness ==
    /\ IsAssign /\ ~call.ok
    /\ call.field = "log_level" /\ call.raw = RStr(StrTrace)
    /\ cfg # <<>> /\ cfg[1].log_dir = DirApp

\* The inputs's schema violations, by pydantic's own conversions: a field that
\* is missing, empty or of a type that cannot be converted, or an extra field.
SchemaViolations(data) ==
    ConvLine("log_dir", ToPath(data.log_dir))
    \cup ConvLine("log_level", ToStr(data.log_level))
    \cup ConvLine("log_verbose", ToBool(data.log_verbose))
    \cup ConvLine("max_bytes", ToInt(data.max_bytes, DefaultMaxBytes))
    \cup ConvLine("backup_count", ToInt(data.backup_count, DefaultBackupCount))
    \cup (IF data.extra THEN {LineError("extra", "extra_forbidden")} ELSE {})

\* C8 as stated: an input with a schema violation fails with the
\* schema-violation error before any field validator has run: log_dir is not
\* created, and an invalid log_level is not what is reported.
C8_SchemaViolationFirst ==
    (IsValidate /\ SchemaViolations(call.data) # {}) =>
        /\ SchemaError
        /\ fs = call.before.fs

\* A field validator raises for the input: log_dir cannot be made, or log_level
\* is a string that is not a level name.
ValidatorRaises ==
    \/ LogDirFails
    \/ /\ ToStr(call.data.log_level).ok
       /\ StrUpper(ToStr(call.data.log_level).s) \notin allowed

\* A raw value that is not of the field's declared type.
NotAPath(raw) == raw.t # "path"
NotABool(raw) == raw.t # "bool"
NotAnInt(raw) == raw.t \notin {"int", "missing"}

YesNoWords ==
    {<<"1">>, <<"0">>, <<"o","n">>, <<"o","f","f">>, <<"t">>, <<"f">>,
     <<"t","r","u","e">>, <<"f","a","l","s","e">>, <<"y">>, <<"n">>,
     <<"y","e","s">>, <<"n","o">>}

\* A raw value that cannot be converted to the field's type either.
NoBoolAtAll(raw) ==
    \/ raw.t = "missing"
    \/ raw.t = "int" /\ raw.n \notin {0, 1}
    \/ raw.t = "str" /\ StrLower(raw.s) \notin YesNoWords
NoIntAtAll(raw) ==
    raw.t = "str"
    /\ \E i \in 1..Len(raw.s) :
          raw.s[i] \notin {"0","1","2","3","4","5","6","7","8","9"}

Listed(loc) == \E l \in call.error.lines : l.loc = loc

FailingFields ==
    {l.loc : l \in SchemaViolations(call.data)}
    \cup (IF LogDirFails THEN {"log_dir"} ELSE {})
    \cup (IF /\ ToStr(call.data.log_level).ok
             /\ StrUpper(ToStr(call.data.log_level).s) \notin allowed
          THEN {"log_level"} ELSE {})

\* C10 as stated: when two or more fields are invalid at once, validation fails
\* with one error that identifies every failing field, and produces no config.
C10_AllFailuresReported ==
    (IsValidate /\ Cardinality(FailingFields) >= 2) =>
        /\ ~call.ok
        /\ call.ret = <<>>
        /\ \A loc \in FailingFields : Listed(loc)

----------------------------------------------------------------------------
(* Claims about CustomLogger, checked under Spec. *)

IsLog == call.op = "log"

\* The severity order DEBUG < INFO < WARNING < ERROR < CRITICAL.
LevelOrder == <<LvDEBUG, LvINFO, LvWARNING, LvERROR, LvCRITICAL>>
Rank(name) == CHOOSE i \in 1..Len(LevelOrder) : LevelOrder[i] = name

\* The logger of the most recent call, after it and before it.
Lg == loggers[call.slot][1]
LgBefore == call.before.loggers[call.slot][1]

FileHandlers(lg) ==
    {i \in 1..Len(lg.handlers) : lg.handlers[i].class = "RotatingFileHandler"}
ConsoleHandlers(lg) ==
    {i \in 1..Len(lg.handlers) : lg.handlers[i].class = "StreamHandler"}

\* The lines of the file the logger's file handler has open.
ActiveFile(lg) == inodes[lg.handlers[CHOOSE i \in FileHandlers(lg) : TRUE].stream]

RECURSIVE TotalLines(_)
TotalLines(ind) == IF ind = <<>> THEN 0 ELSE Len(Head(ind)) + TotalLines(Tail(ind))

Last(q) == q[Len(q)]

\* The message level and the threshold level of the most recent log call.
MsgLevel == levelToName(call.levelno)
Threshold == cfg[1].log_level

Accepted == IsLog /\ Rank(MsgLevel) >= Rank(Threshold)

\* C2: a message at level M through a logger configured at level T reaches
\* the console and the file when rank(M) >= rank(T) and neither when
\* rank(M) < rank(T); the logger's threshold is the number of the config's
\* level and no log call changes it.
C2_ThresholdFilters ==
    /\ \A s \in Slots : loggers[s] # <<>> =>
          /\ levelToName(loggers[s][1].level) = Threshold
          /\ loggers[s][1].log_level = loggers[s][1].level
    /\ IsLog =>
          /\ Lg.level = LgBefore.level
          /\ IF Rank(MsgLevel) >= Rank(Threshold) THEN
                /\ Len(console) = Len(call.before.console) + 1
                /\ SubSeq(console, 1, Len(console) - 1) = call.before.console
                /\ IsPrefix(<<"T", " ", "[">>, Last(console))
                /\ IsPrefix(<<"T", " ", "[">> \o MsgLevel \o <<"]">>, Last(ActiveFile(Lg)))
                /\ TotalLines(inodes) = TotalLines(call.before.inodes) + 1
             ELSE
                /\ console = call.before.console
                /\ inodes = call.before.inodes
                /\ files = call.before.files

\* C2's case: of two log calls through a WARNING-threshold logger, one below
\* the threshold was dropped and one at WARNING has been written to both sinks.
C2_Witness ==
    /\ IsLog /\ nlog = 2
    /\ Threshold = LvWARNING /\ MsgLevel = LvWARNING
    /\ Len(console) = 1
    /\ Len(ActiveFile(Lg)) = 1

\* C3: a constructed logger holds exactly two handlers, one console
\* StreamHandler and one RotatingFileHandler, also after any log calls.
C3_ExactlyTwoSinks ==
    \A s \in Slots : loggers[s] # <<>> =>
        /\ Len(loggers[s][1].handlers) = 2
        /\ Cardinality(ConsoleHandlers(loggers[s][1])) = 1
        /\ Cardinality(FileHandlers(loggers[s][1])) = 1
        /\ \A i \in ConsoleHandlers(loggers[s][1]) :
              loggers[s][1].handlers[i].formatter = "ColoredFormatter"
        /\ \A i \in FileHandlers(loggers[s][1]) :
              /\ loggers[s][1].handlers[i].formatter = "Formatter"
              /\ loggers[s][1].handlers[i].baseFilename = loggers[s][1].log_file

\* C3's case: two log calls, one of them through a rollover, have been made.
C3_Witness ==
    /\ IsLog /\ nlog = 2
    /\ Len(loggers["h1"][1].handlers) = 2
    /\ Cardinality(DOMAIN files) = 2

\* C4: propagation is off on a constructed logger, and no record it accepts
\* reaches an ancestor's handlers, also when the logger hangs under the root.
C4_NoPropagation ==
    /\ \A s \in Slots : loggers[s] # <<>> => loggers[s][1].propagate = FALSE
    /\ rootOut = <<>>
    /\ IsLog => rootOut = call.before.rootOut

\* C4's case: a logger under the root has accepted a record.
C4_Witness ==
    /\ Accepted
    /\ Lg.parent = "root"
    /\ Len(console) > Len(call.before.console)

\* The colours the claim names.
Green   == <<ESC, "[", "9", "2", "m">>
Blue    == <<ESC, "[", "9", "4", "m">>
Yellow  == <<ESC, "[", "9", "3", "m">>
Red     == <<ESC, "[", "9", "1", "m">>
Magenta == <<ESC, "[", "9", "5", "m">>
Reset   == <<ESC, "[", "0", "m">>
ColorOf(level) ==
    CASE level = LvDEBUG -> Green [] level = LvINFO -> Blue
      [] level = LvWARNING -> Yellow [] level = LvERROR -> Red
      [] level = LvCRITICAL -> Magenta

Contains(line, part) ==
    \E i \in 1..(Len(line) - Len(part) + 1) : SubSeq(line, i, i + Len(part) - 1) = part

\* The character classes of an ANSI control sequence, ESC [ parameters
\* intermediates final, over the characters the model writes.
ParamChars == {"0","1","2","3","4","5","6","7","8","9"}
InterChars == {" ", "!"}
FinalChars ==
    {LowerAlpha[i] : i \in 1..26} \cup {UpperAlpha[i] : i \in 1..26} \cup {"[", "]"}

\* The line has an ANSI escape sequence (\x1B\[[0-?]*[ -/]*[@-~]).
HasAnsi(line) ==
    \E i \in 1..Len(line), j \in 1..Len(line), k \in 1..Len(line) :
        /\ i + 2 <= j /\ j <= k
        /\ line[i] = ESC /\ line[i + 1] = "["
        /\ \A x \in (i + 2)..(j - 1) : line[x] \in ParamChars
        /\ \A x \in j..(k - 1) : line[x] \in InterChars
        /\ line[k] \in FinalChars

LabelColored == <<"[">> \o ColorOf(MsgLevel) \o MsgLevel \o Reset \o <<"]">>
LabelPlain == <<"[">> \o MsgLevel \o <<"]">>

\* C5 as stated: for a message with no escape sequence, the console line has
\* the label as colour, level, reset, and the file line has the plain label
\* and no ANSI escape sequence.
C5_FileLineNoAnsi ==
    (Accepted /\ ~HasAnsi(call.msg)) =>
        /\ Contains(Last(console), LabelColored)
        /\ Contains(Last(ActiveFile(Lg)), LabelPlain)
        /\ ~HasAnsi(Last(ActiveFile(Lg)))

\* C5, amended: for a message and a logger name with no escape sequence, the
\* console line has the label as colour, level, reset, and the file line has
\* the plain label and no ANSI escape sequence.
C5_ColoredConsolePlainFile ==
    (Accepted /\ ~HasAnsi(call.msg) /\ ~HasAnsi(call.name)) =>
        /\ Contains(Last(console), LabelColored)
        /\ Contains(Last(ActiveFile(Lg)), LabelPlain)
        /\ ~HasAnsi(Last(ActiveFile(Lg)))

\* C5's case: a CRITICAL message without escapes, through a logger with a
\* plain name, has been written.
C5_Witness ==
    /\ Accepted
    /\ MsgLevel = LvCRITICAL
    /\ call.msg = MsgPlain /\ call.name = NamePlain
    /\ Contains(Last(console), Magenta \o LvCRITICAL \o Reset)

----------------------------------------------------------------------------
(* Rotation: one logger, over configs that vary max_bytes and backup_count. *)

MsgLong == <<"a","b","c","d","e","f","g","h","i","j","k","l","m","n","o","p">>

\* Inputs that vary max_bytes and backup_count as integers of either sign.
RotateData ==
    {DataOf(RPath(DirLogs), RStr(LvINFO), RBool(TRUE), m, b, FALSE) :
        m \in {Missing, RInt(0), RInt(-1), RInt(16), RInt(32)},
        b \in {Missing, RInt(-1), RInt(1), RInt(2)}}

NextRotate ==
    \/ \E data \in RotateData : Validate(data)
    \/ Build("h1", NamePlain)
    \/ \E msg \in {MsgPlain, MsgLong} : Log("h1", LoggingINFO, msg)

\* One logger writing lines of two lengths under every such config.
SpecRotate == Init /\ [][NextRotate]_vars

----------------------------------------------------------------------------
(* Claims about rotation, checked under SpecRotate. *)

\* The file handler of a built logger.
FileHandler(lg) == lg.handlers[CHOOSE i \in FileHandlers(lg) : TRUE]

\* The directory entries that are numbered backups of a base file.
Backups(fls, base) ==
    {p \in DOMAIN fls : p.dir = base.dir /\ p.name = base.name /\ p.n >= 1}

\* C11 as stated: every constructed config has max_bytes > 0 and
\* backup_count >= 0, and no other value reaches the rotating file handler.
C11_SizesInRange ==
    /\ cfg # <<>> => (cfg[1].max_bytes > 0 /\ cfg[1].backup_count >= 0)
    /\ \A s \in Slots : loggers[s] # <<>> =>
          /\ FileHandler(loggers[s][1]).maxBytes > 0
          /\ FileHandler(loggers[s][1]).backupCount >= 0

\* The bytes of the file line of the most recent log call, with its newline.
LineBytes == Len(FileFormat(RecordOf(call.name, call.levelno, call.msg))) + 1

\* The active file as the most recent log call found it.
ActiveBefore == call.before.inodes[FileHandler(LgBefore).stream]

\* The most recent log call rotated the active file to backup 1 and wrote its
\* line to a fresh active file.
Rotated ==
    LET base == Lg.log_file IN
    /\ FileExists(files, Backup(base, 1))
    /\ files[Backup(base, 1)] = call.before.files[base]
    /\ inodes[files[Backup(base, 1)]] = ActiveBefore
    /\ files[base] # call.before.files[base]
    /\ FileHandler(Lg).stream = files[base]
    /\ Len(inodes[files[base]]) = 1

\* C12 as stated: the file handler has the config's max_bytes and
\* backup_count; for backup_count >= 1 a write that would push the active file
\* past max_bytes rotates it to a numbered backup first; the backups are never
\* more than backup_count.
C12_RotatesPastMaxBytes ==
    /\ \A s \in Slots : loggers[s] # <<>> =>
          /\ FileHandler(loggers[s][1]).maxBytes = cfg[1].max_bytes
          /\ FileHandler(loggers[s][1]).backupCount = cfg[1].backup_count
          /\ Cardinality(Backups(files, loggers[s][1].log_file)) <= cfg[1].backup_count
    /\ (/\ Accepted
        /\ cfg[1].backup_count >= 1
        /\ Size(ActiveBefore) + LineBytes > cfg[1].max_bytes) => Rotated

\* C12 for configs in range (max_bytes > 0, backup_count >= 0): the same, and
\* a rotation with backup_count backups already there drops the oldest.
C12_RotatesInRange ==
    (cfg # <<>> /\ cfg[1].max_bytes > 0 /\ cfg[1].backup_count >= 0) =>
        /\ \A s \in Slots : loggers[s] # <<>> =>
              /\ FileHandler(loggers[s][1]).maxBytes = cfg[1].max_bytes
              /\ FileHandler(loggers[s][1]).backupCount = cfg[1].backup_count
              /\ Cardinality(Backups(files, loggers[s][1].log_file))
                    <= cfg[1].backup_count
        /\ (/\ Accepted
            /\ cfg[1].backup_count >= 1
            /\ Size(ActiveBefore) + LineBytes > cfg[1].max_bytes) =>
              /\ Rotated
              /\ \A i \in 1..(cfg[1].backup_count - 1) :
                    FileExists(call.before.files, Backup(Lg.log_file, i)) =>
                        files[Backup(Lg.log_file, i + 1)]
                            = call.before.files[Backup(Lg.log_file, i)]
              /\ FileExists(call.before.files, Backup(Lg.log_file, cfg[1].backup_count)) =>
                    call.before.files[Backup(Lg.log_file, cfg[1].backup_count)]
                        \notin {files[p] : p \in DOMAIN files}

\* The oldest backup has been dropped by a rotation.
C12_OldestDropped ==
    /\ Accepted /\ cfg[1].max_bytes > 0 /\ cfg[1].backup_count = 1
    /\ FileExists(call.before.files, Backup(Lg.log_file, 1))
    /\ call.before.files[Backup(Lg.log_file, 1)] \notin {files[p] : p \in DOMAIN files}

\* C13 as stated: for every validated config, also with backup_count = 0, the
\* active log file never holds more than max_bytes.
C13_ActiveFileBounded ==
    \A s \in Slots : loggers[s] # <<>> =>
        Size(ActiveFile(loggers[s][1])) <= cfg[1].max_bytes

\* C13 for max_bytes > 0, backup_count >= 1 and lines shorter than max_bytes.
C13_BoundedWithBackups ==
    (/\ cfg # <<>> /\ cfg[1].max_bytes > 0 /\ cfg[1].backup_count >= 1
     /\ IsLog /\ LineBytes < cfg[1].max_bytes
     /\ Size(ActiveBefore) < cfg[1].max_bytes) =>
        Size(ActiveFile(Lg)) < cfg[1].max_bytes

----------------------------------------------------------------------------
(* The log directory vanishes between validation and construction. *)

\* Someone removes the config's log_dir, and all under it, while no log file
\* is open in it.
RemoveLogDir ==
    /\ cfg # <<>>
    /\ Kind(fs, cfg[1].log_dir) = "dir"
    /\ files = <<>>
    /\ \A s \in Slots : loggers[s] = <<>>
    /\ fs' = [p \in Paths |-> IF IsPrefix(cfg[1].log_dir, p) THEN "none" ELSE fs[p]]
    /\ call' = CallOf("remove_log_dir", NoData, "", Missing, "", <<>>, 0, <<>>,
                      Snapshot, TRUE, NoError, <<>>)
    /\ UNCHANGED <<cfg, loggers, files, inodes, console, rootOut, clock, nlog>>

NextOpenFail ==
    \/ \E data \in LoggerData : Validate(data)
    \/ RemoveLogDir
    \/ \E slot \in Slots : Build(slot, NamePlain)
    \/ \E slot \in Slots : Log(slot, LoggingINFO, MsgPlain)

\* Loggers built while the log directory is there or gone.
SpecOpenFail == Init /\ [][NextOpenFail]_vars

IsBuild == call.op = "build"

\* C14: a construction that finds log_dir gone (or not a directory) raises an
\* OSError with the errno of the failed open, hands no logger to the caller and
\* changes no file and no console output; no logger exists that lacks its file
\* handler, and every construction that raises leaves no logger.
C14_OpenFailureIsFatal ==
    /\ (IsBuild /\ Kind(call.before.fs, cfg[1].log_dir) # "dir") =>
          /\ ~call.ok
          /\ call.error.class = "OSError"
          /\ call.error.message \in {"ENOENT", "ENOTDIR"}
          /\ loggers[call.slot] = <<>>
          /\ files = call.before.files
          /\ inodes = call.before.inodes
          /\ console = call.before.console
    /\ (IsBuild /\ ~call.ok) => loggers[call.slot] = <<>>
    /\ (IsBuild /\ call.ok) =>
          (loggers[call.slot] # <<>> /\ Kind(call.before.fs, cfg[1].log_dir) = "dir")
    /\ \A s \in Slots : loggers[s] # <<>> =>
          /\ FileHandlers(loggers[s][1]) # {}
          /\ ConsoleHandlers(loggers[s][1]) # {}

\* C14's case: log_dir was removed after validation and the construction failed.
C14_Witness ==
    /\ IsBuild /\ ~call.ok
    /\ cfg # <<>>
    /\ Kind(fs, cfg[1].log_dir) = "none"
    /\ call.error.message = "ENOENT"
    /\ loggers = [s \in Slots |-> <<>>]

----------------------------------------------------------------------------
(* Claims about the defaults, checked under SpecConfig. *)

\* The value a raw max_bytes or backup_count asks for: its integer, or the
\* number a numeric string spells.
Supplied(raw) == IF raw.t = "int" THEN raw.n ELSE StrToInt(raw.s)

\* C15: a constructed config holds max_bytes = 1048576 when max_bytes was
\* omitted and backup_count = 0 when backup_count was omitted, and the value
\* supplied when one was.
C15_DefaultsWhenOmitted ==
    (IsValidate /\ call.ok) =>
        /\ cfg[1].max_bytes =
              (IF call.data.max_bytes = Missing THEN 1048576
               ELSE Supplied(call.data.max_bytes))
        /\ cfg[1].backup_count =
              (IF call.data.backup_count = Missing THEN 0
               ELSE Supplied(call.data.backup_count))

\* C15's case: max_bytes was omitted and backup_count given as 1.
C15_Witness ==
    /\ IsValidate /\ call.ok
    /\ call.data.max_bytes = Missing /\ call.data.backup_count = RInt(1)
    /\ cfg[1].max_bytes = 1048576 /\ cfg[1].backup_count = 1

\* C15's other case: max_bytes was given as 32 and backup_count omitted.
C15_SuppliedKept ==
    /\ IsValidate /\ call.ok
    /\ call.data.max_bytes = RInt(32) /\ call.data.backup_count = Missing
    /\ cfg[1].max_bytes = 32 /\ cfg[1].backup_count = 0

----------------------------------------------------------------------------
(* Two loggers and the wall clock. *)

NameOther == <<"w","e","b">>

\* Valid inputs with the default max_bytes and backup_count.
ClockData ==
    {DataOf(RPath(d), RStr(LvINFO), RBool(TRUE), Missing, Missing, FALSE) :
        d \in {DirLogs, DirApp}}

NextClock ==
    \/ \E data \in ClockData : Validate(data)
    \/ Tick
    \/ Build("h1", NamePlain)
    \/ Build("h2", NameOther)
    \/ \E slot \in Slots : Log(slot, LoggingINFO, MsgPlain)

\* Two loggers built from one config at any two moments, and logged through.
SpecClock == Init /\ [][NextClock]_vars

\* YYYY-MM-DD_HHMMSS.log for a moment in the given second of the model's day.
StampOfSecond(sec) ==
    <<"2026-01-01_0000", Digits[(sec \div 10) + 1], Digits[(sec % 10) + 1], ".log">>

BothBuilt == loggers["h1"] # <<>> /\ loggers["h2"] # <<>>

\* A step that builds a logger names its log_file by the second of that step;
\* no step changes the log_file of a logger there is, or takes the logger away.
PathStep ==
    \A s \in Slots :
        /\ (loggers[s] = <<>> /\ loggers'[s] # <<>>) =>
              /\ loggers'[s][1].log_file
                    = FileOf(cfg[1].log_dir, StampOfSecond(clock \div TicksPerSecond), 0)
              /\ FileExists(files', loggers'[s][1].log_file)
        /\ loggers[s] # <<>> =>
              /\ loggers'[s] # <<>>
              /\ loggers'[s][1].log_file = loggers[s][1].log_file

\* The handler writes the file log_file names; two loggers built within one
\* second have the same log_file, the only log file there is, and every record
\* of either is appended to it.
PathShared ==
    /\ \A s \in Slots : loggers[s] # <<>> =>
          FileHandler(loggers[s][1]).baseFilename = loggers[s][1].log_file
    /\ (BothBuilt /\ clock < TicksPerSecond) =>
          /\ loggers["h1"][1].log_file = loggers["h2"][1].log_file
          /\ DOMAIN files = {loggers["h1"][1].log_file}
          /\ FileHandler(loggers["h1"][1]).stream = FileHandler(loggers["h2"][1]).stream
          /\ Len(inodes) = 1
          /\ Len(inodes[1]) = nlog

\* C16: a logger's log_file is log_dir/<stamp of the second it was built>.log,
\* is the file its handler writes, and is the same after every later call and
\* tick; two loggers built within one second have the same log_file and both
\* append their records to that one file.
C16_PathFixedAtBuild == [][PathStep]_vars /\ []PathShared

\* C16's case: two loggers built within one second have each written a record,
\* and both records are in the one file.
C16_Witness ==
    /\ BothBuilt /\ clock < TicksPerSecond
    /\ loggers["h1"][1].log_file = loggers["h2"][1].log_file
    /\ Len(inodes) = 1 /\ Len(inodes[1]) = 2
    /\ Contains(inodes[1][1], NamePlain)
    /\ Contains(inodes[1][2], NameOther)

\* A logger built in one second writes in the next, to the file named at build.
C16_WritesAfterTick ==
    /\ IsLog /\ clock = TicksPerSecond
    /\ Lg.log_file.name = StampOfSecond(0)
    /\ Len(ActiveFile(Lg)) = 1

----------------------------------------------------------------------------
(* ColoredFormatter.format applied to records whose label was touched before. *)

\* Reset sequences put before and after a level label.
MaxResets == 2

RECURSIVE Resets(_)
Resets(n) == IF n = 0 THEN <<>> ELSE RESET \o Resets(n - 1)

\* A record of the level, its levelname wrapped in reset sequences.
TouchedRecord(levelno, pre, post) ==
    [RecordOf(NamePlain, levelno, MsgPlain) EXCEPT
        !.levelname = Resets(pre) \o levelToName(levelno) \o Resets(post)]

\* ColoredFormatter.format(record) on a fresh record; the line goes to the console.
Format(levelno, pre, post) ==
    /\ call.op = "none"
    /\ LET r == TouchedRecord(levelno, pre, post)
           o == ColoredFormatterFormat(r)
       IN /\ console' = Append(console, o.line)
          /\ call' = CallOf("format", NoData, "", RStr(r.levelname), "", r.name,
                            levelno, r.msg, Snapshot, TRUE, NoError, <<o.record>>)
    /\ UNCHANGED <<fs, cfg, loggers, files, inodes, rootOut, clock, nlog>>

\* ColoredFormatter.format(record) once more on the record just formatted.
FormatAgain ==
    /\ call.op = "format"
    /\ LET o == ColoredFormatterFormat(call.ret[1])
       IN /\ console' = Append(console, o.line)
          /\ call' = [call EXCEPT !.op = "format_again", !.before = Snapshot,
                                  !.ret = <<o.record>>]
    /\ UNCHANGED <<fs, cfg, loggers, files, inodes, rootOut, clock, nlog>>

NextFormat ==
    \/ \E levelno \in LevelNos, pre \in 0..MaxResets, post \in 0..MaxResets :
          Format(levelno, pre, post)
    \/ FormatAgain

\* The formatter alone, over every level and every wrapping of its label.
SpecFormat == Init /\ [][NextFormat]_vars

IsFormat == call.op \in {"format", "format_again"}

\* C17: for a label of the five levels with any number of reset sequences
\* before and after it, the coloured label is the level's colour, the level's
\* name and the reset, and the console line has it in brackets; the record's
\* levelname is left as it was; formatting the record again gives the same
\* coloured label and the same line.
C17_ColoringIdempotent ==
    IsFormat =>
        /\ call.ret[1].levelname_colored = ColorOf(MsgLevel) \o MsgLevel \o Reset
        /\ Contains(Last(console), LabelColored)
        /\ call.ret[1].levelname = call.raw.s
        /\ call.op = "format_again" =>
              /\ Len(console) = 2
              /\ console[2] = console[1]

\* C17's case: CRITICAL with two resets before it and one after was formatted
\* twice.
C17_Witness ==
    /\ call.op = "format_again"
    /\ call.raw.s = Reset \o Reset \o LvCRITICAL \o Reset
    /\ call.ret[1].levelname_colored = Magenta \o LvCRITICAL \o Reset
====
